---- MODULE Spec2Model ----
(***************************************************************************)
(* Model of the customer-feedback server (src/server.js): the Express      *)
(* middleware chain, the POST /send-feedback pipeline (validate, persist,  *)
(* render, notify, respond), the catch-all 404 route and the global error  *)
(* handler.  Each request is a small process; the awaits of the handler    *)
(* (store write, mail send) are the points where requests interleave.      *)
(***************************************************************************)
EXTENDS Integers, Sequences, FiniteSets, TLC

VARIABLES
    pc,           \* per request: "idle", "routing", "saving", "sending", "done"
    req,          \* per request: the HTTP request as it arrived
    receivedAt,   \* per request: clock value when the request arrived
    doc,          \* per request: the Feedback document built by the handler
    html,         \* per request: the rendered notification (feedbackHTML)
    resp,         \* per request: the HTTP response sent
    storeResult,  \* per request: outcome of newFeedback.save()
    mailResult,   \* per request: outcome of transporter.sendMail()
    mailCalls,    \* per request: number of transporter.sendMail() calls made
    responses,    \* per request: number of responses sent
    store,        \* the feedbacks collection, in insertion order
    outbox,       \* messages the mail relay accepted, in order
    clock,        \* the server's clock (Date.now)
    nodeEnv,      \* process.env.NODE_ENV
    db,           \* the mongoose connection: "connecting", "connected", "failed"
    proc,         \* the Node process: "up" or "exited"
    fault         \* the process-level fault that was caught, "none" if none

vars == <<pc, req, receivedAt, doc, html, resp, storeResult, mailResult,
          mailCalls, responses, store, outbox, clock, nodeEnv, db, proc,
          fault>>

\* What no request handler assigns.
process == <<nodeEnv, db, proc, fault>>

----------------------------------------------------------------------------
(* Bounds of the model *)

\* Requests serviced concurrently in Spec.
MaxRequests == 2
\* Largest clock value; Tick stops there.
MaxClock == 1
\* Longest answers array a request of SpecOne carries.
MaxAnswers == 20
\* Longest answers array a request of Spec carries.
MaxShortAnswers == 2

Requests == 1..MaxRequests

----------------------------------------------------------------------------
(* JavaScript values, as far as request bodies and errors carry them *)

Undef == [t |-> "undefined", v |-> 0]
Null == [t |-> "null", v |-> 0]
Str(s) == [t |-> "string", v |-> s]
Num(n) == [t |-> "number", v |-> n]
Arr(s) == [t |-> "array", v |-> s]

\* ToBoolean: what `!x` and `x || y` test.  An array, even empty, is truthy.
Truthy(x) ==
    CASE x.t = "undefined" -> FALSE
      [] x.t = "null" -> FALSE
      [] x.t = "string" -> x.v # ""
      [] x.t = "number" -> x.v # 0
      [] x.t = "array" -> TRUE

\* `${x}` for the values a template literal is given here.
Display(x) ==
    CASE x.t = "undefined" -> "undefined"
      [] x.t = "null" -> "null"
      [] x.t = "string" -> x.v
      [] x.t = "number" -> ToString(x.v)

\* a || b
OrElse(a, b) == IF Truthy(a) THEN a ELSE b

\* `${statusCode}`.startsWith("4"): the leading decimal digit is 4.
RECURSIVE LeadingDigit(_)
LeadingDigit(n) == IF n < 10 THEN n ELSE LeadingDigit(n \div 10)

----------------------------------------------------------------------------
(* class AppError and the global error handler *)

\* The stack every Error object carries (Error.captureStackTrace).
StackTrace == Str("Error: ... at ...")

AppError(message, statusCode) ==
    [message |-> message,
     statusCode |-> Num(statusCode),
     status |-> IF LeadingDigit(statusCode) = 4 THEN Str("fail") ELSE Str("error"),
     stack |-> StackTrace]

\* An error thrown by a library: it carries a message and neither statusCode
\* nor status (a rejected save(), a TypeError).
PlainError(message) ==
    [message |-> message, statusCode |-> Undef, status |-> Undef,
     stack |-> StackTrace]

\* The error body-parser hands to next(): http-errors sets status and
\* statusCode to the number 400.
ParseErrorMessage == <<"Unexpected", "token", "in", "JSON">>
BodyParseError ==
    [message |-> ParseErrorMessage, statusCode |-> Num(400), status |-> Num(400),
     stack |-> StackTrace]

StoreErrorMessage == <<"store", "write", "failed">>
NotAFunctionMessage == <<"answers.map", "is", "not", "a", "function">>
IncompleteMessage == <<"Incomplete", "data.", "All", "fields", "required.">>
SavedButMailFailedMessage ==
    <<"Feedback", "saved", "but", "email", "sending", "failed">>
SuccessMessage ==
    <<"Feedback", "saved", "and", "email", "sent", "successfully">>
NotFoundMessage(originalUrl) ==
    <<"Can't", "find", originalUrl, "on", "this", "server!">>

NoResp ==
    [code |-> 0, kind |-> "none", success |-> FALSE, status |-> Undef,
     message |-> <<>>, stack |-> Undef]

\* res.status(code).end() / a file streamed by express.static
EmptyResp(code) ==
    [code |-> code, kind |-> "empty", success |-> FALSE, status |-> Undef,
     message |-> <<>>, stack |-> Undef]
FileResp ==
    [code |-> 200, kind |-> "file", success |-> FALSE, status |-> Undef,
     message |-> <<>>, stack |-> Undef]

\* res.status(200).json({success: true, message})
SuccessResp ==
    [code |-> 200, kind |-> "json", success |-> TRUE, status |-> Undef,
     message |-> SuccessMessage, stack |-> Undef]

ErrorHandlerStackAlways(err) ==
    LET statusCode == OrElse(err.statusCode, Num(500))
        status == OrElse(err.status, Str("error"))
    IN  [code |-> statusCode.v, kind |-> "json", success |-> FALSE,
         status |-> status,
         message |-> IF err.message # <<>> THEN err.message
                     ELSE <<"Internal", "Server", "Error">>,
         stack |-> IF nodeEnv # Str("production") THEN err.stack ELSE Undef]

\* app.use((err, req, res, next) => ...).  A field of the response that is
\* Undef is one res.json() leaves out: JSON has no undefined.
ErrorHandler(err) ==
    LET statusCode == OrElse(err.statusCode, Num(500))
        status == OrElse(err.status, Str("error"))
    IN  [code |-> statusCode.v, kind |-> "json", success |-> FALSE,
         status |-> status,
         message |-> IF err.message # <<>> THEN err.message
                     ELSE <<"Internal", "Server", "Error">>,
         stack |-> IF nodeEnv = Str("development") THEN err.stack ELSE Undef]

----------------------------------------------------------------------------
(* Requests *)

\* What the server is asked: the method, the URL as sent (req.originalUrl),
\* whether express.json() can parse the body, and the parsed body.
Body(name, vehicle, phone, answers) ==
    [name |-> name, vehicle |-> vehicle, phone |-> phone, answers |-> answers]

\* req.body when nothing was parsed: {}
EmptyBody == Body(Undef, Undef, Undef, Undef)

Request(method, url, parseOk, body) ==
    [method |-> method, url |-> url, parseOk |-> parseOk, body |-> body]

NoRequest == Request("", "", TRUE, EmptyBody)

Methods == {"GET", "POST", "OPTIONS"}
Urls == {"/favicon.ico", "/send-feedback", "/no-such-path", "/index.html"}

\* The files under public/ that express.static can serve.
StaticFiles == {"/index.html"}

\* An answers array of n entries, the k-th (if any) left blank.
Ratings == <<"Excellent", "Good", "Average", "Poor">>
AnswerArray(n, k) ==
    Arr([i \in 1..n |-> IF i = k THEN Str("")
                        ELSE Str(Ratings[((i - 1) % Len(Ratings)) + 1])])

AnswerArrays(maxLen) == {AnswerArray(n, k) : n \in 0..maxLen, k \in 0..maxLen}

\* Requests that do not carry a feedback body: every method on every URL,
\* with a body that parses (or none) and with one that does not.
PlainRequests ==
    {Request(m, u, ok, EmptyBody) : m \in Methods, u \in Urls, ok \in BOOLEAN}

\* POST /send-feedback with a JSON body that parses.
FeedbackRequests(names, vehicles, phones, answerss) ==
    {Request("POST", "/send-feedback", TRUE, Body(n, v, p, a)) :
        n \in names, v \in vehicles, p \in phones, a \in answerss}

\* The requests of SpecOne: every kind of field value, short and long arrays.
RichRequests ==
    PlainRequests \cup
    FeedbackRequests({Undef, Null, Str(""), Str("A. Singh")},
                     {Undef, Str("KA01AB1234")},
                     {Str(""), Num(0), Num(98765), Str("9999999999")},
                     {Undef, Str("yes")} \cup AnswerArrays(MaxAnswers))

\* The requests of Spec: one of each outcome of the pipeline.
FewRequests ==
    {Request("GET", "/no-such-path", TRUE, EmptyBody)} \cup
    FeedbackRequests({Str("A. Singh")}, {Str("KA01AB1234")},
                     {Str(""), Str("9999999999")},
                     {Str("yes"), AnswerArray(0, 0),
                      AnswerArray(MaxShortAnswers, MaxShortAnswers)})

----------------------------------------------------------------------------
(* Schema and model: feedbackSchema, Feedback *)

\* Mongoose's cast to String of a value the validation lets through.
CastString(x) == Display(x)

\* Mongoose's cast to [String]: a value that is not an array is wrapped
\* into a one-element array, then every element is cast.
CastStringArray(x) ==
    IF x.t = "array" THEN [i \in 1..Len(x.v) |-> CastString(x.v[i])]
    ELSE <<CastString(x)>>

NoDoc ==
    [id |-> 0, name |-> "", vehicle |-> "", phone |-> "", answers |-> <<>>,
     submittedAt |-> 0]

NewFeedbackEpoch(id, body, now) ==
    [id |-> id,
     name |-> CastString(body.name),
     vehicle |-> CastString(body.vehicle),
     phone |-> CastString(body.phone),
     answers |-> CastStringArray(body.answers),
     submittedAt |-> 0]

NewFeedbackShared(id, body, now) ==
    [id |-> id,
     name |-> CastString(req[1].body.name),
     vehicle |-> CastString(req[1].body.vehicle),
     phone |-> CastString(req[1].body.phone),
     answers |-> CastStringArray(req[1].body.answers),
     submittedAt |-> now]

\* new Feedback({ name, vehicle, phone, answers }): the four fields cast to
\* the schema's types, submittedAt defaulted to Date.now.  id stands for the
\* document's _id (one per construction).
NewFeedback(id, body, now) ==
    [id |-> id,
     name |-> CastString(body.name),
     vehicle |-> CastString(body.vehicle),
     phone |-> CastString(body.phone),
     answers |-> CastStringArray(body.answers),
     submittedAt |-> now]

InsertOneReplacing(coll, d) == <<d>>

\* newFeedback.save(), when the store accepts it: one document inserted.
InsertOne(coll, d) == Append(coll, d)

----------------------------------------------------------------------------
(* The POST /send-feedback handler's pure parts *)

IncompleteDataNoPhone(body) ==
    \/ ~Truthy(body.name)
    \/ ~Truthy(body.vehicle)
    \/ ~Truthy(body.answers)

IncompleteDataNonEmpty(body) ==
    \/ ~Truthy(body.name)
    \/ ~Truthy(body.vehicle)
    \/ ~Truthy(body.phone)
    \/ ~Truthy(body.answers)
    \/ (body.answers.t = "array" /\ body.answers.v = <<>>)

\* if (!name || !vehicle || !phone || !answers)
IncompleteData(body) ==
    \/ ~Truthy(body.name)
    \/ ~Truthy(body.vehicle)
    \/ ~Truthy(body.phone)
    \/ ~Truthy(body.answers)

questions ==
    <<"How would you rate your overall interaction & experience with workshop?",
      "How would you rate the quality of maintenance & repair work done on your car?",
      "How would you rate the condition or cleanliness of your car on return?",
      "How would you rate the explanation given by service advisor on the work done of your car?",
      "How would you rate the Service Delivery process of your car after servicing?",
      "How would you rate the overall cleanliness of the Dealer Facility?",
      "Did you receive the car as per promised Date & Time?",
      "Were all the work reported by you completed?",
      "Were the repair charges reasonable with respect to the work done?",
      "Was the Pre Road Test conducted with you before opening the Repair Order?",
      "Did Service Advisor open your Repair Order in which device format?",
      "How do you rate the courtesy & behaviour of the person who came to pick & drop your vehicle?",
      "Was the vehicle picked & dropped as per committed time?",
      "Did the SA inform you about the Estimate of Repair & Cost?",
      "How would you rate the support provided by workshop in getting Insurance claim?",
      "How would you rate the quality of Bodyshop repair work done on your car?",
      "Did the Workshop provide you regular updates about your vehicle status on WhatsApp Group?",
      "Were you provided the Final Road Test during delivery of the Vehicle?">>

\* questions[i] of JavaScript (0-based): undefined past the end of the list.
QuestionAt(i) == IF i < Len(questions) THEN Str(questions[i + 1]) ELSE Undef

\* One <li>: `<li><b>${questions[i]}</b><br/>Answer: ${ans || "Not Answered"}</li>`
ListItem(ans, i) ==
    [question |-> Display(QuestionAt(i)),
     answer |-> Display(OrElse(ans, Str("Not Answered")))]

\* answers.map((ans, i) => ...): one item per entry of answers, in order.
RenderItems(answers) ==
    [j \in 1..Len(answers) |-> ListItem(answers[j], j - 1)]

NoHtml ==
    [name |-> "", vehicle |-> "", phone |-> "", items |-> <<>>,
     submittedOn |-> 0]

\* feedbackHTML, for an answers that has a map method (an array).
FeedbackHTML(body, now) ==
    [name |-> Display(body.name),
     vehicle |-> Display(body.vehicle),
     phone |-> Display(body.phone),
     items |-> RenderItems(body.answers.v),
     submittedOn |-> now]

\* Evaluating the template throws a TypeError when answers has no map.
RenderThrows(body) == body.answers.t # "array"

\* The message handed to transporter.sendMail.
MailMessage(id, body, rendered) ==
    [id |-> id,
     subject |-> <<"New", "Feedback", "from", Display(body.name),
                   "(" \o Display(body.vehicle) \o ")">>,
     html |-> rendered]

MailFailErrorUnsaved == AppError(<<"Email", "sending", "failed">>, 500)

\* new AppError("Feedback saved but email sending failed", 500)
MailFailError == AppError(SavedButMailFailedMessage, 500)

NotFoundErrorRoot(originalUrl) == AppError(NotFoundMessage("/"), 404)

\* new AppError(`Can't find ${req.originalUrl} on this server!`, 404)
NotFoundError(originalUrl) == AppError(NotFoundMessage(originalUrl), 404)

----------------------------------------------------------------------------
(* The middleware chain, in the order the application registers it *)

Route(q) ==
    CASE q.method = "GET" /\ q.url = "/favicon.ico" -> "favicon"
      [] OTHER ->
    CASE q.method = "OPTIONS" -> "preflight"
      [] OTHER ->
    CASE ~q.parseOk -> "parseError"
      [] OTHER ->
    CASE q.method = "GET" /\ q.url \in StaticFiles -> "static"
      [] OTHER ->
    CASE q.method = "POST" /\ q.url = "/send-feedback" -> "feedback"
      [] OTHER -> "notFound"

----------------------------------------------------------------------------
(* State *)

\* The values NODE_ENV takes: unset, "production", "development".
NodeEnvs == {Undef, Str("production"), Str("development")}

TypeOK ==
    /\ pc \in [Requests -> {"idle", "routing", "saving", "sending", "done"}]
    /\ receivedAt \in [Requests -> 0..MaxClock]
    /\ storeResult \in [Requests -> {"none", "ok", "fail"}]
    /\ mailResult \in [Requests -> {"none", "ok", "fail"}]
    /\ mailCalls \in [Requests -> Nat]
    /\ responses \in [Requests -> Nat]
    /\ clock \in 0..MaxClock
    /\ nodeEnv \in NodeEnvs
    /\ db \in {"connecting", "connected", "failed"}
    /\ proc \in {"up", "exited"}
    /\ fault \in {"none", "connect", "uncaughtException", "unhandledRejection"}

\* No request has arrived.
InitRequests ==
    /\ pc = [r \in Requests |-> "idle"]
    /\ req = [r \in Requests |-> NoRequest]
    /\ receivedAt = [r \in Requests |-> 0]
    /\ doc = [r \in Requests |-> NoDoc]
    /\ html = [r \in Requests |-> NoHtml]
    /\ resp = [r \in Requests |-> NoResp]
    /\ storeResult = [r \in Requests |-> "none"]
    /\ mailResult = [r \in Requests |-> "none"]
    /\ mailCalls = [r \in Requests |-> 0]
    /\ responses = [r \in Requests |-> 0]
    /\ store = <<>>
    /\ outbox = <<>>
    /\ clock = 0

\* The server once mongoose.connect() has resolved, NODE_ENV unset.
Init ==
    /\ InitRequests
    /\ nodeEnv = Undef
    /\ db = "connected"
    /\ proc = "up"
    /\ fault = "none"

\* The same, under any NODE_ENV.
InitOne ==
    /\ InitRequests
    /\ nodeEnv \in NodeEnvs
    /\ db = "connected"
    /\ proc = "up"
    /\ fault = "none"

\* The process as it starts: app.listen() is called while mongoose.connect()
\* is still pending, so requests are accepted before the connection settles.
InitProc ==
    /\ InitRequests
    /\ nodeEnv = Undef
    /\ db = "connecting"
    /\ proc = "up"
    /\ fault = "none"

----------------------------------------------------------------------------
(* Actions *)

\* Time passes.
Tick ==
    /\ proc = "up"
    /\ clock < MaxClock
    /\ clock' = clock + 1
    /\ UNCHANGED <<pc, req, receivedAt, doc, html, resp, storeResult,
                   mailResult, mailCalls, responses, store, outbox, process>>

\* One of the requests qs reaches the server; requests are numbered in
\* arrival order.
Arrive(r, qs) ==
    /\ proc = "up"
    /\ pc[r] = "idle"
    /\ \A s \in 1..(r - 1) : pc[s] # "idle"
    /\ \E q \in qs : req' = [req EXCEPT ![r] = q]
    /\ receivedAt' = [receivedAt EXCEPT ![r] = clock]
    /\ pc' = [pc EXCEPT ![r] = "routing"]
    /\ UNCHANGED <<doc, html, resp, storeResult, mailResult, mailCalls,
                   responses, store, outbox, clock, process>>

\* The response is sent and the request is over.
Respond(r, response) ==
    /\ resp' = [resp EXCEPT ![r] = response]
    /\ responses' = [responses EXCEPT ![r] = @ + 1]
    /\ pc' = [pc EXCEPT ![r] = "done"]

\* The middleware chain runs, and, for POST /send-feedback, the handler up to
\* its first await: validation, then the document is built and save() called.
Handle(r) ==
    /\ proc = "up"
    /\ pc[r] = "routing"
    /\ LET q == req[r]
           route == Route(q)
       IN  IF route = "feedback" /\ ~IncompleteData(q.body)
           THEN /\ doc' = [doc EXCEPT ![r] = NewFeedback(r, q.body, clock)]
                /\ pc' = [pc EXCEPT ![r] = "saving"]
                /\ UNCHANGED <<resp, responses>>
           ELSE /\ Respond(r,
                     CASE route = "favicon" -> EmptyResp(204)
                       [] route = "preflight" -> EmptyResp(204)
                       [] route = "parseError" -> ErrorHandler(BodyParseError)
                       [] route = "static" -> FileResp
                       [] route = "feedback" ->
                            ErrorHandler(AppError(IncompleteMessage, 400))
                       [] route = "notFound" ->
                            ErrorHandler(NotFoundError(q.url)))
                /\ UNCHANGED doc
    /\ UNCHANGED <<req, receivedAt, html, storeResult, mailResult, mailCalls,
                   store, outbox, clock, process>>

AfterSaveNoAwait(r) ==
    IF RenderThrows(req[r].body)
    THEN /\ Respond(r, ErrorHandler(PlainError(NotAFunctionMessage)))
         /\ UNCHANGED <<html, mailCalls>>
    ELSE /\ html' = [html EXCEPT ![r] = FeedbackHTML(req[r].body, clock)]
         /\ mailCalls' = [mailCalls EXCEPT ![r] = @ + 1]
         /\ Respond(r, SuccessResp)

\* The handler from the resolved save() to its next await: the notification is
\* rendered and sendMail called, or the rendering throws and catchAsync hands
\* the TypeError to the error handler.
AfterSave(r) ==
    IF RenderThrows(req[r].body)
    THEN /\ Respond(r, ErrorHandler(PlainError(NotAFunctionMessage)))
         /\ UNCHANGED <<html, mailCalls>>
    ELSE /\ html' = [html EXCEPT ![r] = FeedbackHTML(req[r].body, clock)]
         /\ mailCalls' = [mailCalls EXCEPT ![r] = @ + 1]
         /\ pc' = [pc EXCEPT ![r] = "sending"]
         /\ UNCHANGED <<resp, responses>>

\* await newFeedback.save() resolves: the document is in the store.
SaveOk(r) ==
    /\ proc = "up"
    /\ db = "connected"
    /\ pc[r] = "saving"
    /\ store' = InsertOne(store, doc[r])
    /\ storeResult' = [storeResult EXCEPT ![r] = "ok"]
    /\ AfterSave(r)
    /\ UNCHANGED <<req, receivedAt, doc, mailResult, outbox, clock, process>>

SaveFailSwallowed(r) ==
    /\ proc = "up"
    /\ pc[r] = "saving"
    /\ storeResult' = [storeResult EXCEPT ![r] = "fail"]
    /\ AfterSave(r)
    /\ UNCHANGED <<req, receivedAt, doc, mailResult, store, outbox, clock, process>>

\* await newFeedback.save() rejects: catchAsync hands the store's error to the
\* error handler; nothing was written.
SaveFail(r) ==
    /\ proc = "up"
    /\ pc[r] = "saving"
    /\ storeResult' = [storeResult EXCEPT ![r] = "fail"]
    /\ Respond(r, ErrorHandler(PlainError(StoreErrorMessage)))
    /\ UNCHANGED <<req, receivedAt, doc, html, mailResult, mailCalls, store,
                   outbox, clock, process>>

\* await transporter.sendMail() resolves: the relay accepted the message.
MailOk(r) ==
    /\ proc = "up"
    /\ pc[r] = "sending"
    /\ outbox' = Append(outbox, MailMessage(r, req[r].body, html[r]))
    /\ mailResult' = [mailResult EXCEPT ![r] = "ok"]
    /\ Respond(r, SuccessResp)
    /\ UNCHANGED <<req, receivedAt, doc, html, storeResult, mailCalls, store,
                   clock, process>>

MailFailIgnored(r) ==
    /\ proc = "up"
    /\ pc[r] = "sending"
    /\ mailResult' = [mailResult EXCEPT ![r] = "fail"]
    /\ Respond(r, SuccessResp)
    /\ UNCHANGED <<req, receivedAt, doc, html, storeResult, mailCalls, store,
                   outbox, clock, process>>

MailFailSilent(r) ==
    /\ proc = "up"
    /\ pc[r] = "sending"
    /\ mailResult' = [mailResult EXCEPT ![r] = "fail"]
    /\ pc' = [pc EXCEPT ![r] = "done"]
    /\ UNCHANGED <<req, receivedAt, doc, html, resp, storeResult, mailCalls,
                   responses, store, outbox, clock, process>>

\* await transporter.sendMail() rejects: the catch block hands an AppError to
\* the error handler; the store is left as it is.
MailFail(r) ==
    /\ proc = "up"
    /\ pc[r] = "sending"
    /\ mailResult' = [mailResult EXCEPT ![r] = "fail"]
    /\ Respond(r, ErrorHandler(MailFailError))
    /\ UNCHANGED <<req, receivedAt, doc, html, storeResult, mailCalls, store,
                   outbox, clock, process>>

\* mongoose.connect() resolves.
ConnectOk ==
    /\ proc = "up"
    /\ db = "connecting"
    /\ db' = "connected"
    /\ UNCHANGED <<pc, req, receivedAt, doc, html, resp, storeResult,
                   mailResult, mailCalls, responses, store, outbox, clock,
                   nodeEnv, proc, fault>>

\* mongoose.connect() rejects and the failure is only logged.
ConnectFailLogged ==
    /\ proc = "up"
    /\ db = "connecting"
    /\ db' = "failed"
    /\ fault' = "connect"
    /\ UNCHANGED <<pc, req, receivedAt, doc, html, resp, storeResult,
                   mailResult, mailCalls, responses, store, outbox, clock,
                   nodeEnv, proc>>

\* mongoose.connect() rejects: the catch callback logs and calls
\* process.exit(1).
ConnectFail ==
    /\ proc = "up"
    /\ db = "connecting"
    /\ db' = "failed"
    /\ fault' = "connect"
    /\ proc' = "exited"
    /\ UNCHANGED <<pc, req, receivedAt, doc, html, resp, storeResult,
                   mailResult, mailCalls, responses, store, outbox, clock,
                   nodeEnv>>

\* An exception reaches the top of the event loop: the "uncaughtException"
\* listener logs and calls process.exit(1).
UncaughtException ==
    /\ proc = "up"
    /\ fault' = "uncaughtException"
    /\ proc' = "exited"
    /\ UNCHANGED <<pc, req, receivedAt, doc, html, resp, storeResult,
                   mailResult, mailCalls, responses, store, outbox, clock,
                   nodeEnv, db>>

\* A promise rejects with no handler: the "unhandledRejection" listener logs
\* and calls process.exit(1).
UnhandledRejection ==
    /\ proc = "up"
    /\ fault' = "unhandledRejection"
    /\ proc' = "exited"
    /\ UNCHANGED <<pc, req, receivedAt, doc, html, resp, storeResult,
                   mailResult, mailCalls, responses, store, outbox, clock,
                   nodeEnv, db>>

----------------------------------------------------------------------------
(* Specifications *)

\* Concurrent requests, each one of FewRequests.
Next ==
    \/ Tick
    \/ \E r \in Requests : Arrive(r, FewRequests)
    \/ \E r \in Requests : Handle(r)
    \/ \E r \in Requests : SaveOk(r)
    \/ \E r \in Requests : SaveFail(r)
    \/ \E r \in Requests : MailOk(r)
    \/ \E r \in Requests : MailFail(r)

Spec == Init /\ [][Next]_vars

\* What the runtime and the collaborators guarantee when the store call and
\* the mail relay call each return: a received request is routed, a pending
\* save() settles, a pending sendMail() settles.
Fairness ==
    \A r \in Requests :
        /\ WF_vars(Handle(r))
        /\ WF_vars(SaveOk(r) \/ SaveFail(r))
        /\ WF_vars(MailOk(r) \/ MailFail(r))

\* Concurrent requests with the clock left where it is: the time of day
\* decides no step of a request.
NextLive ==
    \/ \E r \in Requests : Arrive(r, FewRequests)
    \/ \E r \in Requests : Handle(r)
    \/ \E r \in Requests : SaveOk(r)
    \/ \E r \in Requests : SaveFail(r)
    \/ \E r \in Requests : MailOk(r)
    \/ \E r \in Requests : MailFail(r)

SpecLive == Init /\ [][NextLive]_vars /\ Fairness

\* The process from its start: the connection attempt, concurrent requests
\* and the process-level faults.
NextProc ==
    \/ ConnectOk
    \/ ConnectFail
    \/ UncaughtException
    \/ UnhandledRejection
    \/ \E r \in Requests : Arrive(r, FewRequests)
    \/ \E r \in Requests : Handle(r)
    \/ \E r \in Requests : SaveOk(r)
    \/ \E r \in Requests : SaveFail(r)
    \/ \E r \in Requests : MailOk(r)
    \/ \E r \in Requests : MailFail(r)

SpecProc == InitProc /\ [][NextProc]_vars

\* One request, any of RichRequests.
NextOne ==
    \/ Tick
    \/ Arrive(1, RichRequests)
    \/ Handle(1)
    \/ SaveOk(1)
    \/ SaveFail(1)
    \/ MailOk(1)
    \/ MailFail(1)

SpecOne == InitOne /\ [][NextOne]_vars

----------------------------------------------------------------------------
(* Vocabulary of the properties *)

Fields == {"name", "vehicle", "phone", "answers"}

IsFeedbackPost(q) == q.method = "POST" /\ q.url = "/send-feedback"

\* The request is a POST /send-feedback whose JSON body was parsed.
FeedbackWithBody(r) ==
    pc[r] # "idle" /\ IsFeedbackPost(req[r]) /\ req[r].parseOk

\* Some field of the body is missing or falsy.
FalsyField(body) == \E f \in Fields : ~Truthy(body[f])

\* The body has the types of the documented request: three strings and an
\* array of strings.
WellTyped(body) ==
    /\ \A f \in Fields \ {"answers"} : body[f].t = "string"
    /\ body.answers.t = "array"
    /\ \A i \in 1..Len(body.answers.v) : body.answers.v[i].t = "string"

\* The records of the store written by request r, and the messages the relay
\* accepted for it.
RecordsOf(r) == {i \in 1..Len(store) : store[i].id = r}
MessagesOf(r) == {i \in 1..Len(outbox) : outbox[i].id = r}

Contains(message, word) == \E i \in 1..Len(message) : message[i] = word

\* The JSON error body {success: false, status, ...} with the given code.
IsErrorResp(response, code, status) ==
    /\ response.code = code
    /\ response.kind = "json"
    /\ response.success = FALSE
    /\ response.status = Str(status)

\* Request r has rendered its notification.
Rendered(r) == mailCalls[r] > 0

----------------------------------------------------------------------------
(* C1 *)

\* C1: every POST /send-feedback whose body lacks, or holds a falsy value
\* for, any of name, vehicle, phone, answers is answered 400 with
\* {success: false, status: "fail"}, and never writes to the store nor calls
\* the mail relay.
C1_IncompleteRejected ==
    \A r \in Requests :
        (FeedbackWithBody(r) /\ FalsyField(req[r].body)) =>
            /\ pc[r] \in {"routing", "done"}
            /\ storeResult[r] = "none"
            /\ RecordsOf(r) = {}
            /\ mailCalls[r] = 0
            /\ MessagesOf(r) = {}
            /\ pc[r] = "done" => IsErrorResp(resp[r], 400, "fail")

\* A request missing only its phone has been answered 400.
C1_Witness ==
    \E r \in Requests :
        /\ FeedbackWithBody(r) /\ pc[r] = "done"
        /\ Truthy(req[r].body.name) /\ Truthy(req[r].body.vehicle)
        /\ ~Truthy(req[r].body.phone) /\ Truthy(req[r].body.answers)
        /\ resp[r].code = 400

----------------------------------------------------------------------------
(* C2 *)

\* C2: every POST /send-feedback with a valid payload (all four fields present
\* and of the documented types) whose store write succeeded has exactly one
\* record in the store, holding the submitted name, vehicle, phone and answers
\* and a server-assigned timestamp not earlier than the request's receipt;
\* the store holds exactly one record per request whose write succeeded.
C2_OneRecordPerValidRequest ==
    /\ \A r \in Requests :
        (/\ FeedbackWithBody(r)
         /\ ~FalsyField(req[r].body)
         /\ WellTyped(req[r].body)
         /\ storeResult[r] = "ok") =>
            /\ Cardinality(RecordsOf(r)) = 1
            /\ \A i \in RecordsOf(r) :
                /\ store[i].name = req[r].body.name.v
                /\ store[i].vehicle = req[r].body.vehicle.v
                /\ store[i].phone = req[r].body.phone.v
                /\ Len(store[i].answers) = Len(req[r].body.answers.v)
                /\ \A j \in 1..Len(store[i].answers) :
                       store[i].answers[j] = req[r].body.answers.v[j].v
                /\ store[i].submittedAt >= receivedAt[r]
    /\ Len(store) = Cardinality({r \in Requests : storeResult[r] = "ok"})
    /\ \A r \in Requests : storeResult[r] # "ok" => RecordsOf(r) = {}

\* Two valid requests have each written their record, one of them received
\* after the clock moved.
C2_Witness ==
    \E r, s \in Requests :
        /\ r # s
        /\ FeedbackWithBody(r) /\ WellTyped(req[r].body) /\ storeResult[r] = "ok"
        /\ FeedbackWithBody(s) /\ WellTyped(req[s].body) /\ storeResult[s] = "ok"
        /\ receivedAt[s] > 0
        /\ Len(req[r].body.answers.v) > 0
        /\ Len(store) = 2

----------------------------------------------------------------------------
(* C3 *)

\* C3: when a request's store write succeeded and its mail relay call failed,
\* its record stays in the store from then on, and its response is 500 with
\* {success: false, status: "error"} and a message containing "saved" and
\* "failed".
C3_MailFailureKeepsRecord ==
    \A r \in Requests :
        (storeResult[r] = "ok" /\ mailResult[r] = "fail") =>
            /\ Cardinality(RecordsOf(r)) = 1
            /\ pc[r] = "done"
            /\ IsErrorResp(resp[r], 500, "error")
            /\ Contains(resp[r].message, "saved")
            /\ Contains(resp[r].message, "failed")

\* A request's mail failed after its write, and a later request has since
\* written its own record.
C3_Witness ==
    \E r, s \in Requests :
        /\ r < s
        /\ storeResult[r] = "ok" /\ mailResult[r] = "fail"
        /\ storeResult[s] = "ok" /\ pc[s] = "done"
        /\ RecordsOf(r) # {}

----------------------------------------------------------------------------
(* C4 *)

\* C4: when a request's store write fails, no mail send is attempted for it,
\* no record of it is in the store, and its response is 500 with
\* {success: false, status: "error"}.
C4_StoreFailureAborts ==
    \A r \in Requests :
        storeResult[r] = "fail" =>
            /\ mailCalls[r] = 0
            /\ mailResult[r] = "none"
            /\ MessagesOf(r) = {}
            /\ RecordsOf(r) = {}
            /\ pc[r] = "done"
            /\ IsErrorResp(resp[r], 500, "error")

\* A request's store write has failed while another request's succeeded.
C4_Witness ==
    \E r, s \in Requests :
        /\ storeResult[r] = "fail" /\ pc[r] = "done"
        /\ storeResult[s] = "ok"

----------------------------------------------------------------------------
(* C5 *)

\* The record of r was persisted and the relay accepted exactly one message.
SavedAndSent(r) ==
    /\ storeResult[r] = "ok" /\ Cardinality(RecordsOf(r)) = 1
    /\ mailResult[r] = "ok" /\ Cardinality(MessagesOf(r)) = 1
    /\ mailCalls[r] = 1

\* C5: a finished POST /send-feedback was answered 200 {success: true,
\* message: "Feedback saved and email sent successfully"} exactly when its
\* record was persisted and the relay accepted exactly one message for it;
\* no 200 is sent when either step failed or was skipped.
C5_SuccessIffSavedAndSent ==
    \A r \in Requests :
        (pc[r] = "done" /\ IsFeedbackPost(req[r])) =>
            /\ (/\ resp[r].code = 200
                /\ resp[r].kind = "json"
                /\ resp[r].success = TRUE
                /\ resp[r].message = <<"Feedback", "saved", "and", "email",
                                       "sent", "successfully">>)
               <=> SavedAndSent(r)
            /\ resp[r].code = 200 => SavedAndSent(r)

\* One request was answered 200 and another, whose mail failed, was not.
C5_Witness ==
    \E r, s \in Requests :
        /\ pc[r] = "done" /\ IsFeedbackPost(req[r]) /\ resp[r].code = 200
        /\ pc[s] = "done" /\ IsFeedbackPost(req[s]) /\ mailResult[s] = "fail"

----------------------------------------------------------------------------
(* C6 *)

\* name, vehicle and phone are non-empty and answers is the empty array.
EmptyAnswers(r) ==
    /\ FeedbackWithBody(r)
    /\ Truthy(req[r].body.name)
    /\ Truthy(req[r].body.vehicle)
    /\ Truthy(req[r].body.phone)
    /\ req[r].body.answers = Arr(<<>>)

----------------------------------------------------------------------------
(* C7, C8 *)

\* The array of answers of r, when answers is an array.
AnswersOf(r) == req[r].body.answers.v

\* Item i of the rendering pairs question i with answer text a.
Pairs(r, i, a) ==
    /\ html[r].items[i].question = questions[i]
    /\ html[r].items[i].answer = a

\* C7: for an answers array of n < 18 entries the rendered notification has
\* one entry for each of the 18 questions, in order: question i with
\* answers[i] for i < n, and the other 18 - n questions with "Not Answered".
C7_ShortAnswersPadded ==
    \A r \in Requests :
        (/\ FeedbackWithBody(r) /\ Rendered(r)
         /\ req[r].body.answers.t = "array"
         /\ Len(AnswersOf(r)) < Len(questions)) =>
            /\ Len(html[r].items) = Len(questions)
            /\ \A i \in 1..Len(AnswersOf(r)) :
                   Truthy(AnswersOf(r)[i]) => Pairs(r, i, AnswersOf(r)[i].v)
            /\ \A i \in (Len(AnswersOf(r)) + 1)..Len(questions) :
                   Pairs(r, i, "Not Answered")

\* C8: for an answers array of more than 18 entries the rendered notification
\* has exactly 18 entries, built from answers[0..17]; later entries are
\* dropped.
C8_LongAnswersTruncated ==
    \A r \in Requests :
        (/\ FeedbackWithBody(r) /\ Rendered(r)
         /\ req[r].body.answers.t = "array"
         /\ Len(AnswersOf(r)) > Len(questions)) =>
            /\ Len(html[r].items) = Len(questions)
            /\ \A i \in 1..Len(questions) :
                   Truthy(AnswersOf(r)[i]) => Pairs(r, i, AnswersOf(r)[i].v)

----------------------------------------------------------------------------
(* C9 *)

\* No route of the application is defined for the request: it is not
\* GET /favicon.ico, not POST /send-feedback and not a served static asset.
UndefinedRoute(q) ==
    /\ ~(q.method = "GET" /\ q.url = "/favicon.ico")
    /\ ~(q.method = "POST" /\ q.url = "/send-feedback")
    /\ ~(q.method = "GET" /\ q.url \in StaticFiles)

IsNotFoundResp(response, url) ==
    /\ IsErrorResp(response, 404, "fail")
    /\ response.message = <<"Can't", "find", url, "on", "this", "server!">>

NoStoreNoMail(r) ==
    /\ storeResult[r] = "none" /\ RecordsOf(r) = {}
    /\ mailCalls[r] = 0 /\ MessagesOf(r) = {}

----------------------------------------------------------------------------
(* C10 *)

\* C10: a record, once in the store, stays there with unchanged fields; every
\* step leaves the store as it is or adds one record at its end.
C10_RecordsImmutable ==
    [][/\ Len(store') \in {Len(store), Len(store) + 1}
       /\ \A i \in 1..Len(store) : store'[i] = store[i]]_vars

\* Two requests have written their records, and requests of other outcomes
\* (a failed mail, a completed one) have run since the first write.
C10_Witness ==
    \E r, s \in Requests :
        /\ r # s
        /\ Len(store) = 2
        /\ store[1].id = r /\ store[2].id = s
        /\ pc[r] = "done" /\ mailResult[r] = "fail"
        /\ pc[s] = "done"

----------------------------------------------------------------------------
(* C11 *)

\* Request r was answered with an error (a 4xx or 5xx response).
ErrorAnswered(r) == pc[r] = "done" /\ resp[r].code >= 400

\* C11: every error response is the JSON {success: false, status, message,
\* stack?}; it carries the stack exactly when NODE_ENV is "development", and
\* leaves it out in every other mode, for 400, 404 and 500 alike.
C11_StackOnlyInDevelopment ==
    \A r \in Requests :
        ErrorAnswered(r) =>
            /\ resp[r].kind = "json"
            /\ resp[r].success = FALSE
            /\ resp[r].status # Undef
            /\ resp[r].message # <<>>
            /\ resp[r].stack # Undef <=> nodeEnv = Str("development")

\* A 500 carrying its stack in development mode.
C11_Witness ==
    \E r \in Requests :
        /\ ErrorAnswered(r) /\ resp[r].code = 500
        /\ nodeEnv = Str("development")
        /\ resp[r].stack = Str("Error: ... at ...")

----------------------------------------------------------------------------
(* C12 *)

\* C12: a POST /send-feedback that ends with a response other than 200 after
\* its record was persisted is answered 500 "Feedback saved but email sending
\* failed", for every payload that passes validation (an answers that is not
\* an array included): no failure after the store write yields a 500 whose
\* message does not say that the record was saved.
C12_FailureAfterSaveSaysSaved ==
    \A r \in Requests :
        (/\ pc[r] = "done" /\ IsFeedbackPost(req[r])
         /\ storeResult[r] = "ok" /\ RecordsOf(r) # {}
         /\ resp[r].code # 200) =>
            /\ IsErrorResp(resp[r], 500, "error")
            /\ Contains(resp[r].message, "saved")
            /\ resp[r].message = <<"Feedback", "saved", "but", "email",
                                   "sending", "failed">>

----------------------------------------------------------------------------
(* C15 *)

\* C15: in every error response success is false and the status field is
\* "fail" exactly when the code is 4xx and "error" exactly when it is 5xx,
\* whatever raised the error (the handler, the store, the rendering, the body
\* parser); an error without a status code is answered 500 "error".
C15_StatusFollowsCode ==
    \A r \in Requests :
        ErrorAnswered(r) =>
            /\ resp[r].success = FALSE
            /\ resp[r].status = Str("fail") <=> resp[r].code \in 400..499
            /\ resp[r].status = Str("error") <=> resp[r].code \in 500..599

----------------------------------------------------------------------------
(* C13 *)

\* C13: in every request the steps validate, persist, render, notify, respond
\* happen in that order, under any interleaving: the document is built only
\* from a payload that passed validation, the store write follows it, the
\* rendering and the mail send start only once the store write has succeeded,
\* and the response is not sent while the mail send is outstanding.
C13_PipelineInOrder ==
    \A r \in Requests :
        /\ doc[r] # NoDoc =>
             FeedbackWithBody(r) /\ ~FalsyField(req[r].body)
        /\ storeResult[r] # "none" => doc[r] # NoDoc
        /\ pc[r] = "saving" => storeResult[r] = "none" /\ mailCalls[r] = 0
        /\ html[r] # NoHtml => storeResult[r] = "ok"
        /\ mailCalls[r] > 0 =>
             /\ storeResult[r] = "ok" /\ RecordsOf(r) # {}
             /\ html[r] # NoHtml
             /\ mailCalls[r] = 1
        /\ mailResult[r] # "none" => mailCalls[r] > 0
        /\ pc[r] = "sending" => mailCalls[r] > 0 /\ mailResult[r] = "none"
        /\ MessagesOf(r) # {} => mailResult[r] = "ok"
        /\ resp[r] # NoResp <=> pc[r] = "done"
        /\ (resp[r] # NoResp /\ mailCalls[r] > 0) => mailResult[r] # "none"

\* Two requests interleave: the one that arrived second has been saved first
\* and answered, while the first still waits for the mail relay.
C13_Witness ==
    \E r, s \in Requests :
        /\ r < s
        /\ pc[r] = "sending" /\ resp[r] = NoResp
        /\ pc[s] = "done" /\ mailResult[s] = "ok"
        /\ Len(store) = 2 /\ store[1].id = s /\ store[2].id = r

----------------------------------------------------------------------------
(* C14 *)

\* Request r passed validation and its store write succeeded.
Persisted(r) ==
    FeedbackWithBody(r) /\ ~FalsyField(req[r].body) /\ storeResult[r] = "ok"

\* The fields of a record that come from the payload.
Payload(record) ==
    <<record.name, record.vehicle, record.phone, record.answers>>

\* C14: under any interleaving of concurrent requests, a request's response
\* and record depend only on its own payload and on the outcomes of its own
\* store and mail calls: requests with the same payload and outcomes get the
\* same response and the same record fields, a record holds its own request's
\* payload, and the store holds exactly one record per request that passed
\* validation and whose write succeeded.
C14_RequestsIndependent ==
    /\ \A r, s \in Requests :
        (/\ pc[r] = "done" /\ pc[s] = "done"
         /\ req[r] = req[s]
         /\ storeResult[r] = storeResult[s]
         /\ mailResult[r] = mailResult[s]) =>
            /\ resp[r] = resp[s]
            /\ \A i \in RecordsOf(r), j \in RecordsOf(s) :
                   Payload(store[i]) = Payload(store[j])
    /\ \A r \in Requests : \A i \in RecordsOf(r) :
        /\ store[i].name = CastString(req[r].body.name)
        /\ store[i].vehicle = CastString(req[r].body.vehicle)
        /\ store[i].phone = CastString(req[r].body.phone)
        /\ store[i].answers = CastStringArray(req[r].body.answers)
    /\ \A r \in Requests :
        Cardinality(RecordsOf(r)) = IF Persisted(r) THEN 1 ELSE 0
    /\ Len(store) = Cardinality({r \in Requests : Persisted(r)})

\* Two requests with different payloads ran interleaved: the second to arrive
\* was saved first, and both were answered.
C14_Witness ==
    \E r, s \in Requests :
        /\ r < s
        /\ pc[r] = "done" /\ pc[s] = "done"
        /\ req[r].body # req[s].body
        /\ Len(store) = 2 /\ store[1].id = s /\ store[2].id = r
        /\ resp[r] # resp[s]

----------------------------------------------------------------------------
(* C16 *)

\* C16: a POST /send-feedback whose store call and mail relay call each return
\* is answered exactly once: eventually one response, never a second; and as
\* long as its mail relay call has not returned the request stays unanswered,
\* there being no timeout that would answer it.
C16_ExactlyOneResponse ==
    /\ \A r \in Requests :
        (pc[r] = "routing" /\ IsFeedbackPost(req[r])) ~> (responses[r] = 1)
    /\ [](\A r \in Requests : responses[r] <= 1)
    /\ [](\A r \in Requests :
            pc[r] = "sending" => responses[r] = 0 /\ resp[r] = NoResp)
    /\ [][\A r \in Requests :
            (pc[r] = "sending" /\ mailResult'[r] = "none") =>
                pc'[r] = "sending" /\ responses'[r] = 0]_vars

\* A request was answered once, after its store and mail calls returned, while
\* another still waits for the mail relay, unanswered.
C16_Witness ==
    \E r, s \in Requests :
        /\ IsFeedbackPost(req[r]) /\ pc[r] = "done"
        /\ storeResult[r] = "ok" /\ mailResult[r] # "none"
        /\ responses[r] = 1
        /\ IsFeedbackPost(req[s]) /\ pc[s] = "sending" /\ responses[s] = 0

----------------------------------------------------------------------------
\* C17: process-level faults are fatal.  Once the startup connection attempt
\* has failed, or an uncaught exception or an unhandled rejection has been
\* caught, the process has exited; a failed connection is never seen with
\* the process still up; and an exited process takes no further step: it
\* routes no request, sends no response, writes no record, sends no mail.
C17_FaultsAreFatal ==
    /\ [](fault # "none" => proc = "exited")
    /\ [](db = "failed" => proc = "exited" /\ fault = "connect")
    /\ [](proc = "exited" => fault # "none")
    /\ [][proc = "exited" =>
            /\ proc' = "exited"
            /\ UNCHANGED <<pc, req, resp, responses, store, outbox,
                           storeResult, mailResult, mailCalls>>]_vars

\* The connection attempt failed after one request had been answered and
\* while another was waiting for its save(): the process is gone and the
\* waiting request has no response.
C17_Witness ==
    /\ proc = "exited" /\ db = "failed" /\ fault = "connect"
    /\ \E r, s \in Requests :
        /\ pc[r] = "done" /\ responses[r] = 1
        /\ pc[s] = "saving" /\ responses[s] = 0

====
